---------------------------- MODULE Spec2Model ----------------------------
(***************************************************************************)
(* A model of card_game.py: the 54-card deck, the player ledger, the bet   *)
(* prompt and play_round.                                                  *)
(*                                                                         *)
(* Money is a Python float.  The model keeps the two kinds of float the    *)
(* program can hold here: a number (an integer count of money units, for   *)
(* which float arithmetic is exact) and nan, which float("nan") parses to. *)
(* Comparisons follow IEEE 754: every ordered comparison with nan is       *)
(* false, and nan == 0 is false.                                           *)
(***************************************************************************)
EXTENDS Integers, Sequences, FiniteSets, TLC

(* ------------------------------ bounds -------------------------------- *)
MaxPlayers == 2
MaxBankroll == 3
MaxAnte == 1
MaxMaxBet == 2
MaxInput == 3
MaxSeeds == 3
MaxDealPlayers == 14

(* ------------------------- program constants -------------------------- *)
HandSize == 4
WinScore == 32
JokerFactor == 3
WinFactor == 2

(* ------------------------------- floats ------------------------------- *)
Num(n) == [kind |-> "num", v |-> n]
NaN == [kind |-> "nan", v |-> 0]

IsNaN(x) == x.kind = "nan"

\* x < y, x > y, x == y on floats
FLt(x, y) == x.kind = "num" /\ y.kind = "num" /\ x.v < y.v
FGt(x, y) == x.kind = "num" /\ y.kind = "num" /\ x.v > y.v
FEq(x, y) == x.kind = "num" /\ y.kind = "num" /\ x.v = y.v

\* x - y, x + y, x * k on floats
FSub(x, y) == IF IsNaN(x) \/ IsNaN(y) THEN NaN ELSE Num(x.v - y.v)
FAdd(x, y) == IF IsNaN(x) \/ IsNaN(y) THEN NaN ELSE Num(x.v + y.v)
FMul(x, k) == IF IsNaN(x) THEN NaN ELSE Num(x.v * k)

(* ------------------------------- cards -------------------------------- *)
SUITS == <<"S", "H", "D", "C">>
RANKS == <<"A", "2", "3", "4", "5", "6", "7", "8", "9", "10", "J", "Q", "K">>
JOKER == "JOKER"

\* Card(rank, suit); the suit field defaults to None
Card(rank, suit) == [rank |-> rank, suit |-> suit]
JokerCard == Card(JOKER, "None")

\* int(rank) for the ranks "2" .. "10": RANKS[n] is str(n) for n in 2..10
IntOfRank(rank) == CHOOSE n \in 2..10 : RANKS[n] = rank

\* Card.value
Value(card) ==
    IF card.rank = JOKER THEN 0
    ELSE IF card.rank = "A" THEN 11
    ELSE IF card.rank \in {"K", "Q", "J"} THEN 10
    ELSE IntOfRank(card.rank)

\* Deck.__init__: suits outer loop, ranks inner loop, then the two jokers
NewDeckOneJoker ==
    [k \in 1..(Len(SUITS) * Len(RANKS) + 1) |->
        IF k <= Len(SUITS) * Len(RANKS)
        THEN Card(RANKS[((k - 1) % Len(RANKS)) + 1], SUITS[((k - 1) \div Len(RANKS)) + 1])
        ELSE JokerCard]

NewDeck ==
    [k \in 1..(Len(SUITS) * Len(RANKS) + 2) |->
        IF k <= Len(SUITS) * Len(RANKS)
        THEN Card(RANKS[((k - 1) % Len(RANKS)) + 1], SUITS[((k - 1) \div Len(RANKS)) + 1])
        ELSE JokerCard]

\* The orders random.Random(seed).shuffle gives a list of 54 elements, for
\* the seeds listed: the element at place k after the shuffle is the one
\* that was at place perm[k] before it.
ShuffleTable ==
    << [seed |-> 2251, perm |-> <<40, 27, 54, 52, 48, 8, 12, 26, 34, 17, 23, 5, 43, 51, 36, 46, 24, 18, 35, 29, 31, 21, 25, 47, 7, 38, 28, 22, 1, 4, 37, 2, 45, 16, 53, 9, 14, 42, 39, 49, 10, 33, 32, 50, 15, 11, 19, 41, 13, 44, 30, 20, 6, 3>>],
       [seed |-> 2, perm |-> <<16, 30, 10, 22, 5, 7, 54, 27, 23, 25, 9, 36, 41, 19, 42, 31, 47, 8, 21, 32, 52, 46, 44, 13, 40, 15, 12, 1, 49, 2, 34, 18, 37, 29, 35, 51, 33, 26, 28, 50, 38, 3, 45, 14, 39, 17, 20, 43, 48, 11, 24, 53, 6, 4>>],
       [seed |-> 10, perm |-> <<50, 26, 45, 47, 43, 2, 7, 36, 20, 39, 35, 4, 17, 40, 49, 51, 19, 8, 25, 38, 12, 29, 52, 6, 15, 33, 22, 41, 10, 48, 13, 23, 9, 27, 44, 24, 16, 5, 21, 46, 34, 53, 11, 42, 18, 32, 30, 14, 1, 54, 31, 28, 3, 37>>],
       [seed |-> 4, perm |-> <<40, 23, 42, 22, 33, 54, 29, 53, 45, 46, 8, 32, 43, 41, 37, 13, 11, 3, 38, 28, 48, 51, 39, 25, 9, 44, 21, 27, 1, 30, 49, 14, 17, 52, 12, 18, 24, 35, 34, 15, 4, 19, 36, 50, 2, 5, 6, 10, 31, 26, 47, 7, 20, 16>>],
       [seed |-> 0, perm |-> <<30, 13, 41, 44, 34, 8, 6, 39, 2, 52, 36, 1, 5, 43, 21, 15, 54, 45, 48, 47, 42, 12, 4, 18, 16, 11, 22, 28, 29, 51, 24, 37, 46, 10, 35, 50, 7, 40, 19, 9, 53, 14, 38, 23, 31, 20, 26, 32, 33, 17, 3, 27, 49, 25>>] >>

Seeds == {ShuffleTable[k].seed : k \in 1..MaxSeeds}

PermOf(seed) == (CHOOSE k \in 1..Len(ShuffleTable) : ShuffleTable[k].seed = seed)

\* Deck.shuffle(seed): the cards in the order the seeded generator gives
\* (with seed=None the generator is seeded by the system: some order)
Shuffle(cards, seed) ==
    [k \in 1..Len(cards) |-> cards[ShuffleTable[PermOf(seed)].perm[k]]]

\* Deck.draw(count): the cards drawn and the cards left; ok is FALSE when
\* the code raises ValueError("Not enough cards to draw")
DrawNoCheck(cards, count) ==
    LET c == IF count > Len(cards) THEN Len(cards) ELSE count
    IN  [ok |-> TRUE, drawn |-> SubSeq(cards, 1, c),
         rest |-> SubSeq(cards, c + 1, Len(cards))]

DrawNoRemove(cards, count) ==
    IF count > Len(cards)
    THEN [ok |-> FALSE, drawn |-> <<>>, rest |-> cards]
    ELSE [ok |-> TRUE, drawn |-> SubSeq(cards, 1, count), rest |-> cards]

Draw(cards, count) ==
    IF count > Len(cards)
    THEN [ok |-> FALSE, drawn |-> <<>>, rest |-> cards]
    ELSE [ok |-> TRUE, drawn |-> SubSeq(cards, 1, count),
          rest |-> SubSeq(cards, count + 1, Len(cards))]

(* ------------------------------ scoring ------------------------------- *)
RECURSIVE SumValues(_)
SumValues(hand) ==
    IF hand = <<>> THEN 0
    ELSE (IF Head(hand).rank # JOKER THEN Value(Head(hand)) ELSE 0)
         + SumValues(Tail(hand))

\* score_hand
score_hand(hand) == SumValues(hand)

\* hand_has_joker
hand_has_joker(hand) == \E k \in 1..Len(hand) : hand[k].rank = JOKER

(* ------------------------------ players ------------------------------- *)
\* Player(name, bankroll): the other fields take their defaults.  A player
\* is known by its place in the list (the name is only printed), and
\* outcome keeps which of the messages was set: "skipped", "nobet",
\* "joker", "win", "lose"
NewPlayer(bankroll) ==
    [bankroll |-> Num(bankroll), hand |-> <<>>, ante_paid |-> Num(0),
     bet |-> Num(0), outcome |-> "", payout |-> Num(0)]

\* Player.reset_round
reset_round(p) ==
    [p EXCEPT !.hand = <<>>, !.ante_paid = Num(0), !.bet = Num(0),
              !.outcome = "", !.payout = Num(0)]

\* Player.pay(amount): ok is FALSE when the code raises ValueError
\* ("cannot cover"), and the bankroll is then left as it was
PayNoDebit(p, amount) ==
    IF FGt(amount, p.bankroll)
    THEN [ok |-> FALSE, player |-> p]
    ELSE [ok |-> TRUE, player |-> p]

pay(p, amount) ==
    IF FGt(amount, p.bankroll)
    THEN [ok |-> FALSE, player |-> p]
    ELSE [ok |-> TRUE, player |-> [p EXCEPT !.bankroll = FSub(p.bankroll, amount)]]

\* Player.credit(amount)
credit(p, amount) == [p EXCEPT !.bankroll = FAdd(p.bankroll, amount)]

(* ----------------------------- the prompt ----------------------------- *)
\* What input() hands to prompt_bet after strip(): an empty line, a text
\* float() rejects, a decimal number, "nan", or the end of the input
\* (EOFError).  "inf" is a number above every max_bet.
RawEmpty == [kind |-> "empty", v |-> 0]
RawText == [kind |-> "text", v |-> 0]
RawNaN == [kind |-> "nan", v |-> 0]
RawEOF == [kind |-> "eof", v |-> 0]
RawNum(x) == [kind |-> "num", v |-> x]

RawInputs ==
    {RawEmpty, RawText, RawNaN, RawEOF} \cup {RawNum(x) : x \in (0 - 1)..MaxInput}

\* float(raw), for a raw that float() accepts
ParseFloat(raw) == IF raw.kind = "nan" THEN NaN ELSE Num(raw.v)

\* One pass of the loop of prompt_bet on the line raw: the call raises
\* (EOFError from input), returns value, or prompts again
prompt_bet(raw, p, maxBet) ==
    IF raw.kind = "eof" THEN [does |-> "raise", value |-> Num(0)]
    ELSE IF raw.kind = "empty" THEN [does |-> "return", value |-> Num(0)]
    ELSE IF raw.kind = "text" THEN [does |-> "again", value |-> Num(0)]
    ELSE LET value == ParseFloat(raw)
         IN  IF FLt(value, Num(0)) THEN [does |-> "again", value |-> Num(0)]
             ELSE IF FGt(value, maxBet) THEN [does |-> "again", value |-> Num(0)]
             ELSE IF FGt(value, p.bankroll) THEN [does |-> "again", value |-> Num(0)]
             ELSE [does |-> "return", value |-> value]

(* ------------------------------- state -------------------------------- *)
VARIABLES
    pc,        \* where play_round is: "start", "shuffle", "deal", "turn",
               \* "prompt", "paybet", "payout", "done", "raised"; "off" when
               \* the deck alone is exercised
    err,       \* the exception that left play_round, "" when none
    players,   \* the list of Player records
    i,         \* the index of the player the running loop is at
    deck,      \* deck.cards
    seed,      \* the seed argument
    max_bet,   \* the max_bet argument
    ante,      \* the ante argument
    b0,        \* history: each player's bankroll when play_round was called
    log,       \* history: the effects on players and deck, in order
    dpc,       \* deck exercise: "new", "first", "second", "single", "end"
    dn, dm,    \* deck exercise: the two counts drawn
    deckA,     \* deck exercise: the deck drawn from twice
    deckB,     \* deck exercise: the deck drawn from once
    drawn1, drawn2, drawnAll   \* deck exercise: what the draws returned

vars == <<pc, err, players, i, deck, seed, max_bet, ante, b0, log,
          dpc, dn, dm, deckA, deckB, drawn1, drawn2, drawnAll>>

roundVars == <<pc, err, players, i, deck, seed, max_bet, ante, b0, log>>
drawVars == <<dpc, dn, dm, deckA, deckB, drawn1, drawn2, drawnAll>>

N == Len(players)

\* the exceptions that can leave play_round
DrawError == "ValueError: Not enough cards to draw"
PayError == "ValueError: cannot cover"
InputError == "EOFError"

Event(op, who) == [op |-> op, who |-> who]

DrawIdle ==
    /\ dpc = "off" /\ dn = 0 /\ dm = 0 /\ deckA = <<>> /\ deckB = <<>>
    /\ drawn1 = <<>> /\ drawn2 = <<>> /\ drawnAll = <<>>

\* play_round is called: players built as main builds them (bankrolls may
\* differ), max_bet > 0, ante >= 0
Init ==
    /\ pc = "start" /\ err = "" /\ i = 0 /\ deck = <<>> /\ log = <<>>
    /\ seed \in Seeds
    /\ max_bet \in {Num(x) : x \in 1..MaxMaxBet}
    /\ ante \in {Num(x) : x \in 0..MaxAnte}
    /\ \E n \in 1..MaxPlayers :
          players \in [1..n -> {NewPlayer(b) : b \in 0..MaxBankroll}]
    /\ b0 = [k \in 1..Len(players) |-> players[k].bankroll]
    /\ DrawIdle

\* play_round is called with up to MaxDealPlayers players; those after the
\* first MaxPlayers have no money and the ante is positive
InitDeal ==
    /\ pc = "start" /\ err = "" /\ i = 0 /\ deck = <<>> /\ log = <<>>
    /\ seed \in Seeds
    /\ max_bet \in {Num(x) : x \in 1..MaxMaxBet}
    /\ ante \in {Num(x) : x \in 1..MaxAnte}
    /\ \E n \in 1..MaxDealPlayers :
          players = [k \in 1..n |->
                        NewPlayer(IF k <= MaxPlayers THEN MaxBankroll ELSE 0)]
    /\ b0 = [k \in 1..Len(players) |-> players[k].bankroll]
    /\ DrawIdle

(* ----------------------------- play_round ----------------------------- *)
\* deck = Deck()
NewDeckStep ==
    /\ pc = "start"
    /\ deck' = NewDeck
    /\ pc' = "shuffle"
    /\ UNCHANGED <<err, players, i, seed, max_bet, ante, b0, log>>
    /\ UNCHANGED drawVars

\* deck.shuffle(seed=seed)
ShuffleStep ==
    /\ pc = "shuffle"
    /\ deck' = Shuffle(deck, seed)
    /\ pc' = "deal"
    /\ i' = 1
    /\ UNCHANGED <<err, players, seed, max_bet, ante, b0, log>>
    /\ UNCHANGED drawVars

\* One pass of the deal loop: player.reset_round(); player.hand = deck.draw(4)
DealStepOneLoop ==
    /\ pc = "deal"
    /\ LET p == reset_round(players[i])
           r == Draw(deck, HandSize)
       IN  IF r.ok
           THEN /\ players' = [players EXCEPT ![i] = [p EXCEPT !.hand = r.drawn]]
                /\ deck' = r.rest
                /\ log' = log \o <<Event("reset", i), Event("draw", i)>>
                /\ err' = err
                /\ pc' = "turn" /\ i' = i
           ELSE /\ players' = [players EXCEPT ![i] = p]
                /\ deck' = r.rest
                /\ log' = Append(log, Event("reset", i))
                /\ err' = DrawError
                /\ pc' = "raised"
                /\ i' = i
    /\ UNCHANGED <<seed, max_bet, ante, b0>>
    /\ UNCHANGED drawVars

DealStep ==
    /\ pc = "deal"
    /\ LET p == reset_round(players[i])
           r == Draw(deck, HandSize)
       IN  IF r.ok
           THEN /\ players' = [players EXCEPT ![i] = [p EXCEPT !.hand = r.drawn]]
                /\ deck' = r.rest
                /\ log' = log \o <<Event("reset", i), Event("draw", i)>>
                /\ err' = err
                /\ IF i < N THEN pc' = "deal" /\ i' = i + 1
                            ELSE pc' = "turn" /\ i' = 1
           ELSE /\ players' = [players EXCEPT ![i] = p]
                /\ deck' = r.rest
                /\ log' = Append(log, Event("reset", i))
                /\ err' = DrawError
                /\ pc' = "raised"
                /\ i' = i
    /\ UNCHANGED <<seed, max_bet, ante, b0>>
    /\ UNCHANGED drawVars

\* `continue`, or the end of the loop body: on to the next player, or return
NextPlayerBreak == pc' = "done" /\ i' = i

NextPlayer ==
    IF i < N THEN pc' = "turn" /\ i' = i + 1
             ELSE pc' = "done" /\ i' = i

\* player.bankroll < ante
CannotCoverAnteLe(p, a) == ~FGt(p.bankroll, a)

CannotCoverAnte(p, a) == FLt(p.bankroll, a)

\* if player.bankroll < ante: outcome = skipped; continue
SkipTurn ==
    /\ pc = "turn"
    /\ CannotCoverAnte(players[i], ante)
    /\ players' = [players EXCEPT ![i].outcome = "skipped"]
    /\ log' = Append(log, Event("check", i))
    /\ NextPlayer
    /\ UNCHANGED <<err, deck, seed, max_bet, ante, b0>>
    /\ UNCHANGED drawVars

\* player.pay(ante); player.ante_paid = ante; then prompt_bet is called
PayAnte ==
    /\ pc = "turn"
    /\ ~CannotCoverAnte(players[i], ante)
    /\ LET r == pay(players[i], ante)
       IN  IF r.ok
           THEN /\ players' = [players EXCEPT ![i] = [r.player EXCEPT !.ante_paid = ante]]
                /\ log' = log \o <<Event("check", i), Event("debit_ante", i),
                                   Event("prompt_bet", i)>>
                /\ pc' = "prompt"
                /\ err' = err
           ELSE /\ players' = players
                /\ log' = Append(log, Event("check", i))
                /\ pc' = "raised"
                /\ err' = PayError
    /\ UNCHANGED <<i, deck, seed, max_bet, ante, b0>>
    /\ UNCHANGED drawVars

\* player.bet == 0
NoBetLt(v) == FLt(v, Num(0))

NoBet(v) == FEq(v, Num(0))

\* One line read by prompt_bet; when it returns: player.bet = value, and
\* if player.bet == 0: outcome = no bet; continue
PromptBet(raws) ==
    /\ pc = "prompt"
    /\ \E raw \in raws :
          LET r == prompt_bet(raw, players[i], max_bet)
          IN  CASE r.does = "raise" ->
                     /\ pc' = "raised"
                     /\ err' = InputError
                     /\ UNCHANGED <<players, i>>
                [] r.does = "again" ->
                     UNCHANGED <<pc, err, players, i>>
                [] r.does = "return" ->
                     /\ err' = err
                     /\ IF NoBet(r.value)
                        THEN /\ players' = [players EXCEPT ![i].bet = r.value,
                                                           ![i].outcome = "nobet"]
                             /\ NextPlayer
                        ELSE /\ players' = [players EXCEPT ![i].bet = r.value]
                             /\ pc' = "paybet"
                             /\ i' = i
    /\ UNCHANGED <<deck, seed, max_bet, ante, b0, log>>
    /\ UNCHANGED drawVars

\* player.pay(player.bet)
PayBet ==
    /\ pc = "paybet"
    /\ LET r == pay(players[i], players[i].bet)
       IN  IF r.ok
           THEN /\ players' = [players EXCEPT ![i] = r.player]
                /\ log' = Append(log, Event("debit_bet", i))
                /\ pc' = "payout"
                /\ err' = err
           ELSE /\ players' = players
                /\ log' = log
                /\ pc' = "raised"
                /\ err' = PayError
    /\ UNCHANGED <<i, deck, seed, max_bet, ante, b0>>
    /\ UNCHANGED drawVars

\* The payout of a player who has paid the bet: the player after
\* lines 163-177, and whether credit was called
SettleScoreFirst(p) ==
    IF score_hand(p.hand) >= WinScore
    THEN LET win_amount == FMul(p.bet, WinFactor)
         IN  [credited |-> TRUE,
              player |-> [credit(p, win_amount) EXCEPT !.payout = win_amount,
                                                       !.outcome = "win"]]
    ELSE IF hand_has_joker(p.hand)
    THEN LET win_amount == FMul(p.bet, JokerFactor)
         IN  [credited |-> TRUE,
              player |-> [credit(p, win_amount) EXCEPT !.payout = win_amount,
                                                       !.outcome = "joker"]]
    ELSE [credited |-> FALSE, player |-> [p EXCEPT !.outcome = "lose"]]

Settle(p) ==
    IF hand_has_joker(p.hand)
    THEN LET win_amount == FMul(p.bet, JokerFactor)
         IN  [credited |-> TRUE,
              player |-> [credit(p, win_amount) EXCEPT !.payout = win_amount,
                                                       !.outcome = "joker"]]
    ELSE LET total == score_hand(p.hand)
         IN  IF total >= WinScore
             THEN LET win_amount == FMul(p.bet, WinFactor)
                  IN  [credited |-> TRUE,
                       player |-> [credit(p, win_amount) EXCEPT !.payout = win_amount,
                                                                !.outcome = "win"]]
             ELSE [credited |-> FALSE, player |-> [p EXCEPT !.outcome = "lose"]]

Payout ==
    /\ pc = "payout"
    /\ LET r == Settle(players[i])
       IN  /\ players' = [players EXCEPT ![i] = r.player]
           /\ log' = IF r.credited THEN Append(log, Event("credit", i)) ELSE log
    /\ NextPlayer
    /\ UNCHANGED <<err, deck, seed, max_bet, ante, b0>>
    /\ UNCHANGED drawVars

Next ==
    \/ NewDeckStep
    \/ ShuffleStep
    \/ DealStep
    \/ SkipTurn
    \/ PayAnte
    \/ PromptBet(RawInputs)
    \/ PayBet
    \/ Payout

Spec == Init /\ [][Next]_vars

SpecDeal == InitDeal /\ [][Next]_vars

(* --------------------------- the deck alone --------------------------- *)
\* Two decks are built and shuffled with the same seed; dn cards and then
\* dm cards are drawn from the first, dn + dm cards at once from the second
InitDraw ==
    /\ pc = "off" /\ err = "" /\ i = 0 /\ deck = <<>> /\ log = <<>>
    /\ players = <<>> /\ b0 = <<>> /\ max_bet = Num(1) /\ ante = Num(0)
    /\ seed \in Seeds
    /\ dpc = "new"
    /\ dn \in 0..Len(NewDeck)
    /\ dm \in 0..(Len(NewDeck) - dn)
    /\ deckA = <<>> /\ deckB = <<>>
    /\ drawn1 = <<>> /\ drawn2 = <<>> /\ drawnAll = <<>>

\* Deck(), twice
DrawNew ==
    /\ dpc = "new"
    /\ deckA' = NewDeck
    /\ deckB' = NewDeck
    /\ dpc' = "shuffle"
    /\ UNCHANGED <<dn, dm, drawn1, drawn2, drawnAll>>
    /\ UNCHANGED roundVars

\* shuffle(seed) on both
DrawShuffle ==
    /\ dpc = "shuffle"
    /\ deckA' = Shuffle(deckA, seed)
    /\ deckB' = Shuffle(deckB, seed)
    /\ dpc' = "first"
    /\ UNCHANGED <<dn, dm, drawn1, drawn2, drawnAll>>
    /\ UNCHANGED roundVars

\* draw(dn) on the first deck
DrawFirst ==
    /\ dpc = "first"
    /\ LET r == Draw(deckA, dn)
       IN  /\ drawn1' = r.drawn
           /\ deckA' = r.rest
           /\ dpc' = IF r.ok THEN "second" ELSE "raised"
    /\ UNCHANGED <<dn, dm, deckB, drawn2, drawnAll>>
    /\ UNCHANGED roundVars

\* draw(dm) on the first deck
DrawSecond ==
    /\ dpc = "second"
    /\ LET r == Draw(deckA, dm)
       IN  /\ drawn2' = r.drawn
           /\ deckA' = r.rest
           /\ dpc' = IF r.ok THEN "single" ELSE "raised"
    /\ UNCHANGED <<dn, dm, deckB, drawn1, drawnAll>>
    /\ UNCHANGED roundVars

\* draw(dn + dm) on the second deck
DrawSingle ==
    /\ dpc = "single"
    /\ LET r == Draw(deckB, dn + dm)
       IN  /\ drawnAll' = r.drawn
           /\ deckB' = r.rest
           /\ dpc' = IF r.ok THEN "end" ELSE "raised"
    /\ UNCHANGED <<dn, dm, deckA, drawn1, drawn2>>
    /\ UNCHANGED roundVars

NextDraw ==
    \/ DrawNew
    \/ DrawShuffle
    \/ DrawFirst
    \/ DrawSecond
    \/ DrawSingle

SpecDraw == InitDraw /\ [][NextDraw]_vars

(* ------------------------------- claims ------------------------------- *)
Range(s) == {s[k] : k \in 1..Len(s)}

\* how many times card c occurs in the sequence s
CountIn(c, s) == Cardinality({k \in 1..Len(s) : s[k] = c})

SuitRankCards == {Card(RANKS[r], SUITS[s]) : r \in 1..Len(RANKS), s \in 1..Len(SUITS)}

\* C7 as stated: the deck Deck() builds holds 54 cards, one for each of the
\* 52 suit x rank combinations plus 2 jokers, and no two of the 54 cards are
\* equal (equality of rank and suit).
C7_AllDistinct ==
    pc = "shuffle" =>
        /\ Len(deck) = 54
        /\ \A c \in SuitRankCards : c \in Range(deck)
        /\ CountIn(JokerCard, deck) = 2
        /\ \A j, k \in 1..Len(deck) : j # k => deck[j] # deck[k]

\* C7 amended: the deck Deck() builds holds 54 cards: each of the 52
\* suit x rank combinations exactly once and the joker (rank JOKER, no suit)
\* exactly twice; the two jokers are equal cards, so the deck holds 53
\* distinct cards, and any two equal cards of it are the two jokers.
C7_FreshDeck ==
    pc = "shuffle" =>
        /\ Len(deck) = 54
        /\ Cardinality(SuitRankCards) = 52
        /\ \A c \in SuitRankCards : CountIn(c, deck) = 1
        /\ CountIn(JokerCard, deck) = 2
        /\ Cardinality(Range(deck)) = 53
        /\ \A j, k \in 1..Len(deck) :
              (j # k /\ deck[j] = deck[k]) => deck[j] = JokerCard

C7_Witness == pc = "shuffle" /\ deck = NewDeck /\ deck[53] = deck[54]

\* C8 as stated: draw(n) then draw(m) on one deck return disjoint card sets,
\* their concatenation is what one draw(n+m) returns on a fresh deck
\* shuffled to the same order, and both decks hold the same cards afterwards.
C8_Disjoint ==
    dpc = "end" =>
        /\ Range(drawn1) \cap Range(drawn2) = {}
        /\ drawn1 \o drawn2 = drawnAll
        /\ deckA = deckB

\* C8 amended: draw(n) then draw(m) on one deck return cards from disjoint
\* places of the deck: across the two draws no card is returned more often
\* than the deck held it, so the draws share no card except that each may
\* hold one of the two equal jokers; their concatenation is what one
\* draw(n+m) returns on a fresh deck shuffled to the same order, and both
\* decks hold the same remaining cards afterwards.
C8_DrawSplit ==
    dpc = "end" =>
        /\ Len(drawn1) = dn /\ Len(drawn2) = dm
        /\ \A c \in Range(NewDeck) :
              CountIn(c, drawn1) + CountIn(c, drawn2) + CountIn(c, deckA)
                  = CountIn(c, NewDeck)
        /\ Range(drawn1) \cap Range(drawn2) \subseteq {JokerCard}
        /\ drawn1 \o drawn2 = drawnAll
        /\ deckA = deckB

C8_Witness ==
    /\ dpc = "end" /\ dn > 0 /\ dm > 0 /\ dn + dm < Len(NewDeck)
    /\ JokerCard \in Range(drawn1) /\ JokerCard \in Range(drawn2)

(* ------------------------ claims on play_round ------------------------ *)
HasEvent(op, k) == \E j \in 1..Len(log) : log[j] = Event(op, k)

DealOps == {"reset", "draw"}
MoneyOps == {"debit_ante", "debit_bet", "credit"}
TurnPcs == {"turn", "prompt", "paybet", "payout"}

\* the deal loop has finished
Dealt == pc \in TurnPcs \/ pc = "done" \/ (pc = "raised" /\ err # DrawError)

\* player k's turn has ended without an exception
TurnOver(k) == pc = "done" \/ (Dealt /\ k < i)

\* the 4 cards the deal gives player k
DealtHand(k) ==
    SubSeq(Shuffle(NewDeck, seed), 4 * (k - 1) + 1, 4 * k)

\* bankroll before the round - ante_paid - bet + payout, as floats, left to
\* right
Balance(k) ==
    FAdd(FSub(FSub(b0[k], players[k].ante_paid), players[k].bet),
         players[k].payout)

C2_PayoutBranches ==
    \A k \in 1..N :
        (TurnOver(k) /\ HasEvent("debit_bet", k)) =>
            LET p == players[k]
                staked == FSub(FSub(b0[k], ante), p.bet)
            IN  /\ ~FEq(p.bet, Num(0))
                /\ IF hand_has_joker(p.hand)
                   THEN /\ p.payout = FMul(p.bet, 3)
                        /\ p.outcome = "joker"
                        /\ HasEvent("credit", k)
                        /\ p.bankroll = FAdd(staked, FMul(p.bet, 3))
                   ELSE IF score_hand(p.hand) >= 32
                   THEN /\ p.payout = FMul(p.bet, 2)
                        /\ p.outcome = "win"
                        /\ HasEvent("credit", k)
                        /\ p.bankroll = FAdd(staked, FMul(p.bet, 2))
                   ELSE /\ p.payout = Num(0)
                        /\ p.outcome = "lose"
                        /\ ~HasEvent("credit", k)
                        /\ p.bankroll = staked

C2_Witness ==
    \E k \in 1..N :
        /\ TurnOver(k) /\ HasEvent("debit_bet", k)
        /\ hand_has_joker(players[k].hand)
        /\ score_hand(players[k].hand) >= 32
        /\ players[k].bet = Num(1)
        /\ players[k].payout = Num(3)

\* C3: a player whose bankroll is below the ante when the turn starts is
\* skipped: nothing is debited, the bankroll is unchanged, ante_paid, bet
\* and payout stay 0, the outcome says skipped, prompt_bet is never called
\* for the player, and the player keeps the 4 cards dealt.  A player whose
\* bankroll equals the ante is not skipped.
C3_Skipped ==
    \A k \in 1..N :
        /\ FLt(b0[k], ante) =>
              /\ ~HasEvent("prompt_bet", k)
              /\ \A op \in MoneyOps : ~HasEvent(op, k)
              /\ players[k].bankroll = b0[k]
              /\ players[k].ante_paid = Num(0)
              /\ players[k].bet = Num(0)
              /\ players[k].payout = Num(0)
              /\ TurnOver(k) =>
                    /\ players[k].outcome = "skipped"
                    /\ players[k].hand = DealtHand(k)
                    /\ Len(players[k].hand) = 4
        /\ (FEq(b0[k], ante) /\ TurnOver(k)) =>
              /\ players[k].outcome # "skipped"
              /\ HasEvent("debit_ante", k)
              /\ HasEvent("prompt_bet", k)
              /\ players[k].ante_paid = ante

C3_Witness ==
    /\ pc = "done" /\ N = 2
    /\ FLt(b0[1], ante) /\ players[1].outcome = "skipped"
    /\ FEq(b0[2], ante) /\ players[2].outcome = "nobet"

\* C4: when prompt_bet returns 0 for a player who paid the ante, the turn
\* ends there: the ante stays debited, bet is 0, payout is 0, the outcome
\* says no bet, and neither pay(bet) nor credit nor the payout determination
\* runs for the player, whatever the hand holds.
C4_NoBet ==
    \A k \in 1..N :
        (TurnOver(k) /\ HasEvent("prompt_bet", k) /\ FEq(players[k].bet, Num(0))) =>
            /\ players[k].bankroll = FSub(b0[k], ante)
            /\ players[k].ante_paid = ante
            /\ players[k].payout = Num(0)
            /\ players[k].outcome = "nobet"
            /\ ~HasEvent("debit_bet", k)
            /\ ~HasEvent("credit", k)

C4_Witness ==
    \E k \in 1..N :
        /\ TurnOver(k) /\ HasEvent("prompt_bet", k)
        /\ players[k].outcome = "nobet"
        /\ hand_has_joker(players[k].hand)
        /\ score_hand(players[k].hand) >= 32
        /\ ante.v > 0 /\ players[k].bankroll.v = b0[k].v - ante.v

\* C5 as stated: a failure at any step of one player's turn ends only that
\* player's turn and never aborts the other players: whenever play_round
\* has stopped after the deal, every player has had the eligibility check.
C5_NeverAborts ==
    (Dealt /\ pc \in {"done", "raised"}) => \A k \in 1..N : HasEvent("check", k)

\* C5 amended: the two early endings of a turn that raise nothing (skipped
\* for the ante, no bet) end only that player's turn, and when play_round
\* returns every player has had the eligibility check.  An exception raised
\* in a player's turn (EOFError from the prompt's input) is not caught: it
\* leaves play_round at once, the ante debited from that player stays
\* debited, and no later player gets an eligibility check, ante, bet or
\* payout.
C5_AbortsOnException ==
    /\ pc = "done" => \A k \in 1..N : HasEvent("check", k)
    /\ \A k \in 1..N :
          (TurnOver(k) /\ players[k].outcome \in {"skipped", "nobet"} /\ k < N) =>
              (HasEvent("check", k + 1) \/ (pc = "turn" /\ i = k + 1))
    /\ (pc = "raised" /\ err # DrawError) =>
          /\ err = InputError
          /\ HasEvent("debit_ante", i)
          /\ players[i].bankroll = FSub(b0[i], ante)
          /\ \A k \in 1..N :
                k > i =>
                   /\ ~HasEvent("check", k)
                   /\ ~HasEvent("prompt_bet", k)
                   /\ \A op \in MoneyOps : ~HasEvent(op, k)
                   /\ players[k].bankroll = b0[k]
                   /\ players[k].ante_paid = Num(0)
                   /\ players[k].outcome = ""

C5_Witness ==
    /\ pc = "raised" /\ err = InputError /\ N = 2 /\ i = 1
    /\ ~FLt(b0[2], ante)
    /\ ~HasEvent("check", 2)

\* C6: a player's bankroll never goes negative: from bankrolls >= 0, an
\* ante >= 0 and max_bet > 0, in every state of play_round with the bets
\* read by prompt_bet under any user input, every bankroll is >= 0 and pay
\* never raises the insufficient-funds error.
C6_NonNegative ==
    /\ err # PayError
    /\ \A k \in 1..N : ~FLt(players[k].bankroll, Num(0)) /\ ~IsNaN(players[k].bankroll)

\* C9: with at most 13 players the deal never raises: every draw(4) finds 4
\* cards, every player ends the deal with 4 cards and 54 - 4 x players
\* cards remain.  With 14 or more players the 14th draw(4) raises, leaves
\* the deck as it was, and the round stops before any ante is debited.
C9_Deal ==
    /\ N <= 13 =>
          /\ err # DrawError
          /\ pc = "deal" => Len(deck) >= 4
          /\ Dealt =>
                /\ \A k \in 1..N : Len(players[k].hand) = 4
                /\ Len(deck) = 54 - 4 * N
    /\ N >= 14 =>
          /\ ~Dealt
          /\ pc = "deal" => i <= 14
          /\ pc = "raised" =>
                /\ err = DrawError
                /\ i = 14
                /\ deck = SubSeq(Shuffle(NewDeck, seed), 53, 54)
                /\ \A k \in 1..13 : players[k].hand = DealtHand(k)
                /\ players[14].hand = <<>>
                /\ \A k \in 1..N :
                      /\ players[k].bankroll = b0[k]
                      /\ players[k].ante_paid = Num(0)
                      /\ \A op \in MoneyOps \cup {"check"} : ~HasEvent(op, k)

C9_Witness ==
    /\ pc = "raised" /\ err = DrawError /\ N = 14 /\ i = 14 /\ Len(deck) = 2

\* the log keeps the order of play_round
LogOrdered ==
    /\ \A a, b \in 1..Len(log) :
          (a < b /\ log[b].op \in DealOps) => log[a].op \in DealOps
    /\ (\E a \in 1..Len(log) : log[a].op \notin DealOps) =>
          /\ Len(log) >= 2 * N
          /\ \A k \in 1..N :
                log[2 * k - 1] = Event("reset", k) /\ log[2 * k] = Event("draw", k)
    /\ \A a, b \in 1..Len(log) :
          (a < b /\ log[a].op \notin DealOps) => log[a].who <= log[b].who
    /\ \A k \in 1..N :
          LET mine == SelectSeq(log, LAMBDA e : e.who = k /\ e.op \in MoneyOps)
          IN  \/ mine = <<>>
              \/ mine = <<Event("debit_ante", k)>>
              \/ mine = <<Event("debit_ante", k), Event("debit_bet", k)>>
              \/ mine = <<Event("debit_ante", k), Event("debit_bet", k),
                          Event("credit", k)>>

\* a step taken after the deal leaves the deck alone
DeckFrozen == Dealt => deck' = deck

\* C10: every player is reset and dealt 4 cards from the one deck before
\* any ante is debited; after the deal the deck is never drawn from or
\* changed; players are then processed in list order, each with ante debit,
\* then bet debit, then payout credit, and all of a player's operations
\* come before the next player's first.
C10_Ordering == []LogOrdered /\ [][DeckFrozen]_vars

C10_Witness ==
    /\ pc = "done" /\ N = 2
    /\ HasEvent("credit", 1) /\ HasEvent("credit", 2)
    /\ Len(deck) = 54 - 4 * N

====
